---- MODULE Spec2Model ----
(***************************************************************************)
(* Inventory and lending core of the library backend: BooksService,        *)
(* InventoryService and TransactionsService over one shared datastore.     *)
(* Every handler is an async function; each await is one step, so other    *)
(* callers' steps interleave between a handler's reads and its write batch *)
(* (prisma.$transaction([...]) is applied atomically, all or nothing).     *)
(* Time is counted in hours.                                               *)
(***************************************************************************)
EXTENDS Integers, Sequences, FiniteSets, TLC

VARIABLES
    books,       \* book id -> [totalCopies, availableCopies]  (books table, migration.sql)
    copies,      \* copy id -> [bookId, status]                (book_copies rows)
    nextCopyId,  \* the id the next created copy gets; ids are never reused
    txs,         \* transaction rows in creation order; a row's id is its index
    now,         \* the clock, in hours
    wk,          \* per caller: the request in flight (handler position and locals) or its outcome
    calls        \* number of requests received so far

vars == <<books, copies, nextCopyId, txs, now, wk, calls>>
db == <<books, copies, nextCopyId, txs>>

\* ---------------------------------------------------------------- bounds
MaxCalls == 3
MaxCopies == 2
MaxTx == 2

Workers == {1, 2}
PreExistingCopies == {0, 1}
BookIds == {"b1"}
NoBook == "b0"
UserIds == {"u1", "u2"}
\* the borrower the issue requests of the bounded runs name
IssueUserIds == {"u1"}
NoUser == "u0"
CopyIds == 1..MaxCopies
NoCopyId == 0
TxIds == 1..MaxTx
NoTxId == 0
Counts == {0, 1, 2, 101}

\* ---------------------------------------------------------------- time
HoursPerDay == 24
LoanDays == 14
RenewDays == 7
FinePerDay == 10
MinCount == 1
MaxCount == 100
NoDate == -1

Times == {0, 15 * HoursPerDay + 12}

Max(a, b) == IF a >= b THEN a ELSE b

\* Date.setDate(getDate() + n): the same time of day n days later
addDays(d, n) == d + n * HoursPerDay

\* ---------------------------------------------------------------- datastore
DefaultCopyStatus == "AVAILABLE"
DefaultRenewCount == 0

CopyExists(c) == c \in DOMAIN copies
TxExists(t) == t \in 1..Len(txs)

\* foreign key transactions.bookCopyId -> book_copies.id
ReferencedByTx(c) == \E i \in 1..Len(txs) : txs[i].bookCopyId = c

OpenStatuses == {"ISSUED", "OVERDUE"}

AvailableCopiesOf(b) == {c \in DOMAIN copies : copies[c].bookId = b /\ copies[c].status = "AVAILABLE"}
CopiesOf(b) == {c \in DOMAIN copies : copies[c].bookId = b}
OpenTxsOf(c) == {i \in 1..Len(txs) : txs[i].bookCopyId = c /\ txs[i].status \in OpenStatuses}

\* ---------------------------------------------------------------- callers
Idle == [pc |-> "idle"]
Free(w) == wk[w].pc \in {"idle", "done"}
Done(op, res, msg, out) == [pc |-> "done", op |-> op, res |-> res, msg |-> msg, out |-> out]
InFlight(pcs) == Cardinality({w \in Workers : wk[w].pc \in pcs})

\* The state the migration leaves: every book's counters are the counts of its
\* copy rows, no lending has happened yet, no request is in flight.
Init ==
    /\ \E k \in PreExistingCopies :
         /\ copies = [c \in 1..k |-> [bookId |-> "b1", status |-> "AVAILABLE"]]
         /\ nextCopyId = k + 1
    /\ books = [b \in BookIds |->
                  [totalCopies |-> Cardinality({c \in DOMAIN copies : copies[c].bookId = b}),
                   availableCopies |-> Cardinality({c \in DOMAIN copies :
                                          copies[c].bookId = b /\ copies[c].status = "AVAILABLE"})]]
    /\ txs = << >>
    /\ now = 0
    /\ wk = [w \in Workers |-> Idle]
    /\ calls = 0

\* the clock only moves forward
TickIn(S) ==
    /\ \E t \in S : t > now /\ now' = t
    /\ UNCHANGED <<db, wk, calls>>

Tick == TickIn(Times)

\* ---------------------------------------------------------------- TransactionsService.issue
issueDueDate_7(t) == addDays(t, 7)
issueDueDate(t) == addDays(t, LoanDays)

copyNotAvailable_onlyIssued(c) == copies[c].status = "ISSUED"
copyNotAvailable(c) == copies[c].status # "AVAILABLE"

noAvailableCopies(b) == books[b].availableCopies <= 0

\* lines 10-30: the two lookups and the guards. No modelled operation writes the
\* users table, so the user lookup and the copy lookup are taken as one read step.
issue_findResult(u, c) ==
    LET arg == [userId |-> u, bookCopyId |-> c]
    IN IF u \notin UserIds
       THEN Done("issue", "NotFound", "User not found", arg)
       ELSE IF ~CopyExists(c)
       THEN Done("issue", "NotFound", "Book copy not found", arg)
       ELSE IF copyNotAvailable(c)
       THEN Done("issue", "BadRequest", "Book copy is not available", arg)
       ELSE IF noAvailableCopies(copies[c].bookId)
       THEN Done("issue", "BadRequest", "No available copies for this book", arg)
       ELSE [pc |-> "issue_tx", userId |-> u, bookCopyId |-> c,
             bookId |-> copies[c].bookId, dueDate |-> issueDueDate(now)]

issue_find(w, u, c) ==
    /\ Free(w)
    /\ calls < MaxCalls
    /\ calls' = calls + 1
    /\ Len(txs) + InFlight({"issue_tx"}) < MaxTx
    /\ wk' = [wk EXCEPT ![w] = issue_findResult(u, c)]
    /\ UNCHANGED <<db, now>>

NewTransaction(u, c, due) ==
    [userId |-> u, bookCopyId |-> c, issueDate |-> now, dueDate |-> due,
     returnDate |-> NoDate, status |-> "ISSUED", renewCount |-> DefaultRenewCount]

issue_tx(w) ==
    /\ wk[w].pc = "issue_tx"
    /\ UNCHANGED calls
    /\ LET u == wk[w].userId
           c == wk[w].bookCopyId
           b == wk[w].bookId
           arg == [userId |-> u, bookCopyId |-> c]
       IN IF CopyExists(c)
          THEN /\ txs' = Append(txs, NewTransaction(u, c, wk[w].dueDate))
               /\ copies' = [copies EXCEPT ![c].status = "ISSUED"]
               /\ books' = [books EXCEPT ![b].availableCopies = @ - 1]
               /\ wk' = [wk EXCEPT ![w] =
                          Done("issue", "ok", "", [userId |-> u, bookCopyId |-> c, id |-> Len(txs) + 1])]
               /\ UNCHANGED <<nextCopyId, now>>
          ELSE /\ wk' = [wk EXCEPT ![w] = Done("issue", "TxError", "transaction rolled back", arg)]
               /\ UNCHANGED <<db, now>>

\* ---------------------------------------------------------------- TransactionsService.return
overdueDaysOf_roundUp(returnDate, dueDate) == Max(0, (returnDate - dueDate + HoursPerDay - 1) \div HoursPerDay)
overdueDaysOf(returnDate, dueDate) == Max(0, (returnDate - dueDate) \div HoursPerDay)
fineOf(overdueDays) == overdueDays * FinePerDay

alreadyReturned_never(t) == FALSE
alreadyReturned(t) == txs[t].status = "RETURNED"

returnBookUpdate_none(b) == books
returnBookUpdate_total(b) == [books EXCEPT ![b].totalCopies = @ + 1, ![b].availableCopies = @ + 1]
returnBookUpdate(b) == [books EXCEPT ![b].availableCopies = @ + 1]

\* transaction.update({where: {id}, data: {returnDate, status: 'RETURNED'}})
returnTransactionUpdate_delete(t, returnDate) == SubSeq(txs, 1, t - 1) \o SubSeq(txs, t + 1, Len(txs))
returnTransactionUpdate(t, returnDate) == [txs EXCEPT ![t].returnDate = returnDate, ![t].status = "RETURNED"]

return_findResult(t) ==
    IF ~TxExists(t)
    THEN Done("return", "NotFound", "Transaction not found", [transactionId |-> t])
    ELSE IF alreadyReturned(t)
    THEN Done("return", "BadRequest", "Book already returned", [transactionId |-> t])
    ELSE [pc |-> "return_tx", transactionId |-> t,
          bookCopyId |-> txs[t].bookCopyId,
          bookId |-> copies[txs[t].bookCopyId].bookId,
          returnDate |-> now,
          overdueDays |-> overdueDaysOf(now, txs[t].dueDate),
          fine |-> fineOf(overdueDaysOf(now, txs[t].dueDate))]

return_find(w, t) ==
    /\ Free(w)
    /\ calls < MaxCalls
    /\ calls' = calls + 1
    /\ wk' = [wk EXCEPT ![w] = return_findResult(t)]
    /\ UNCHANGED <<db, now>>

\* the batch held back while another caller's return of the same record is pending
return_tx_waits(w) ==
    /\ wk[w].pc = "return_tx"
    /\ \A v \in Workers \ {w} :
         ~(wk[v].pc = "return_tx" /\ wk[v].transactionId = wk[w].transactionId)
    /\ UNCHANGED calls
    /\ LET t == wk[w].transactionId
           c == wk[w].bookCopyId
           b == wk[w].bookId
       IN IF TxExists(t) /\ CopyExists(c)
          THEN /\ txs' = returnTransactionUpdate(t, wk[w].returnDate)
               /\ copies' = [copies EXCEPT ![c].status = "AVAILABLE"]
               /\ books' = returnBookUpdate(b)
               /\ wk' = [wk EXCEPT ![w] =
                          Done("return", "ok", "",
                               [transactionId |-> t, overdueDays |-> wk[w].overdueDays, fine |-> wk[w].fine])]
               /\ UNCHANGED <<nextCopyId, now>>
          ELSE /\ wk' = [wk EXCEPT ![w] =
                          Done("return", "TxError", "transaction rolled back", [transactionId |-> t])]
               /\ UNCHANGED <<db, now>>

return_tx(w) ==
    /\ wk[w].pc = "return_tx"
    /\ UNCHANGED calls
    /\ LET t == wk[w].transactionId
           c == wk[w].bookCopyId
           b == wk[w].bookId
       IN IF TxExists(t) /\ CopyExists(c)
          THEN /\ txs' = returnTransactionUpdate(t, wk[w].returnDate)
               /\ copies' = [copies EXCEPT ![c].status = "AVAILABLE"]
               /\ books' = returnBookUpdate(b)
               /\ wk' = [wk EXCEPT ![w] =
                          Done("return", "ok", "",
                               [transactionId |-> t, overdueDays |-> wk[w].overdueDays, fine |-> wk[w].fine])]
               /\ UNCHANGED <<nextCopyId, now>>
          ELSE /\ wk' = [wk EXCEPT ![w] =
                          Done("return", "TxError", "transaction rolled back", [transactionId |-> t])]
               /\ UNCHANGED <<db, now>>

\* ---------------------------------------------------------------- TransactionsService.renew
notIssued_onlyReturned(t) == txs[t].status = "RETURNED"
notIssued(t) == txs[t].status # "ISSUED"

renewLimitReached_two(t) == txs[t].renewCount >= 2
renewLimitReached(t) == txs[t].renewCount >= 1

\* transaction.update({data: {dueDate, renewCount}}): the two columns named, no other
renewedRecord_relative(r, due, rc) == [r EXCEPT !.dueDate = addDays(@, RenewDays), !.renewCount = @ + 1]
renewedRecord_reopened(r, due, rc) == [r EXCEPT !.dueDate = due, !.renewCount = rc, !.status = "ISSUED"]
renewedRecord(r, due, rc) == [r EXCEPT !.dueDate = due, !.renewCount = rc]

renew_findResult(t) ==
    IF ~TxExists(t)
    THEN Done("renew", "NotFound", "Transaction not found", [transactionId |-> t])
    ELSE IF notIssued(t)
    THEN Done("renew", "BadRequest", "Only issued books can be renewed", [transactionId |-> t])
    ELSE IF renewLimitReached(t)
    THEN Done("renew", "BadRequest", "Maximum renewal limit reached", [transactionId |-> t])
    ELSE [pc |-> "renew_update", transactionId |-> t,
          newDueDate |-> addDays(txs[t].dueDate, RenewDays),
          renewCount |-> txs[t].renewCount + 1]

renew_find(w, t) ==
    /\ Free(w)
    /\ calls < MaxCalls
    /\ calls' = calls + 1
    /\ wk' = [wk EXCEPT ![w] = renew_findResult(t)]
    /\ UNCHANGED <<db, now>>

renew_update(w) ==
    /\ wk[w].pc = "renew_update"
    /\ UNCHANGED calls
    /\ LET t == wk[w].transactionId
       IN /\ txs' = [txs EXCEPT ![t] = renewedRecord(@, wk[w].newDueDate, wk[w].renewCount)]
          /\ wk' = [wk EXCEPT ![w] = Done("renew", "ok", "", [transactionId |-> t])]
    /\ UNCHANGED <<books, copies, nextCopyId, now>>

\* ---------------------------------------------------------------- TransactionsService.findOverdue
\* where: {status: 'ISSUED', dueDate: {lt: now}}
OverdueAt_anyIssued(t) == {i \in 1..Len(txs) : txs[i].status = "ISSUED"}
OverdueAt(t) == {i \in 1..Len(txs) : txs[i].status = "ISSUED" /\ txs[i].dueDate < t}

\* data: {status: 'OVERDUE'}
sweptRecord_unchanged(r) == r
sweptRecord(r) == [r EXCEPT !.status = "OVERDUE"]

\* the rows findMany returns, by id, as they are when it reads them
findOverdue_findManyResult ==
    [pc |-> "findOverdue_updateMany", now |-> now, overdue |-> [i \in OverdueAt(now) |-> txs[i]]]

findOverdue_findMany(w) ==
    /\ Free(w)
    /\ calls < MaxCalls
    /\ calls' = calls + 1
    /\ wk' = [wk EXCEPT ![w] = findOverdue_findManyResult]
    /\ UNCHANGED <<db, now>>

findOverdue_updateMany(w) ==
    /\ wk[w].pc = "findOverdue_updateMany"
    /\ UNCHANGED calls
    /\ txs' = [i \in 1..Len(txs) |->
                 IF i \in OverdueAt(wk[w].now) THEN sweptRecord(txs[i]) ELSE txs[i]]
    /\ wk' = [wk EXCEPT ![w] = Done("findOverdue", "ok", "", [now |-> wk[w].now, overdue |-> wk[w].overdue])]
    /\ UNCHANGED <<books, copies, nextCopyId, now>>

\* ---------------------------------------------------------------- TransactionsService reads
\* req.user, as the JWT strategy sets it: the requester's id and role
Roles == {"ADMIN", "LIBRARIAN", "STUDENT"}
Requesters == {[id |-> "u1", role |-> "STUDENT"], [id |-> "u2", role |-> "STUDENT"],
               [id |-> "a1", role |-> "ADMIN"], [id |-> "l1", role |-> "LIBRARIAN"]}

\* findAll: where = user.role === 'STUDENT' ? {userId: user.id} : {}
findAllWhere_everyone(user) == 1..Len(txs)
findAllWhere(user) ==
    IF user.role = "STUDENT" THEN {i \in 1..Len(txs) : txs[i].userId = user.id} ELSE 1..Len(txs)

\* orderBy: {issueDate: 'desc'}: the rows of S in an order of non-increasing
\* issueDate; rows with equal issueDate come in any order
OrderedByIssueDateDesc(S) ==
    {q \in [1..Cardinality(S) -> S] :
        /\ \A i, j \in 1..Cardinality(S) : i # j => q[i] # q[j]
        /\ \A i, j \in 1..Cardinality(S) : i < j => txs[q[i]].issueDate >= txs[q[j]].issueDate}

findAll(w, user) ==
    /\ Free(w)
    /\ calls < MaxCalls
    /\ calls' = calls + 1
    /\ \E q \in OrderedByIssueDateDesc(findAllWhere(user)) :
         wk' = [wk EXCEPT ![w] = Done("findAll", "ok", "", [user |-> user, list |-> q])]
    /\ UNCHANGED <<db, now>>

\* findActiveByUser, lines 178-180
notOwnUserId_never(userId, user) == FALSE
notOwnUserId(userId, user) == user.role = "STUDENT" /\ userId # user.id

activeOf_everyStatus(userId) == {i \in 1..Len(txs) : txs[i].userId = userId}
activeOf(userId) == {i \in 1..Len(txs) : txs[i].userId = userId /\ txs[i].status \in {"ISSUED", "OVERDUE"}}

findActiveByUser(w, userId, user) ==
    /\ Free(w)
    /\ calls < MaxCalls
    /\ calls' = calls + 1
    /\ wk' = [wk EXCEPT ![w] =
                IF notOwnUserId(userId, user)
                THEN Done("findActiveByUser", "Forbidden", "You can only view your own transactions",
                          [user |-> user, userId |-> userId])
                ELSE Done("findActiveByUser", "ok", "",
                          [user |-> user, userId |-> userId, rows |-> activeOf(userId)])]
    /\ UNCHANGED <<db, now>>

\* findOne, lines 205-207
notOwnTransaction_never(t, user) == FALSE
notOwnTransaction(t, user) == user.role = "STUDENT" /\ txs[t].userId # user.id

findOne(w, t, user) ==
    /\ Free(w)
    /\ calls < MaxCalls
    /\ calls' = calls + 1
    /\ wk' = [wk EXCEPT ![w] =
                IF ~TxExists(t)
                THEN Done("findOne", "NotFound", "Transaction not found", [user |-> user, id |-> t])
                ELSE IF notOwnTransaction(t, user)
                THEN Done("findOne", "Forbidden", "You can only view your own transactions",
                          [user |-> user, id |-> t])
                ELSE Done("findOne", "ok", "", [user |-> user, id |-> t, row |-> txs[t]])]
    /\ UNCHANGED <<db, now>>

\* ---------------------------------------------------------------- TransactionsController
\* @Roles(...) of each endpoint
issueRoles == {"ADMIN", "LIBRARIAN", "STUDENT"}
returnRoles == {"ADMIN", "LIBRARIAN", "STUDENT"}
renewRoles == {"ADMIN", "LIBRARIAN", "STUDENT"}
findOverdueRoles_everyRole == {"ADMIN", "LIBRARIAN", "STUDENT"}
findOverdueRoles == {"ADMIN", "LIBRARIAN"}

\* RolesGuard.canActivate: the requester's role is one of the endpoint's roles
RolesGuard(required, user) == user.role \in required

Refused(op) == Done(op, "Forbidden", "Forbidden resource", <<>>)

\* the request being served, with the requester who sent it; the services are
\* handed the body only
WithRequester(r, user) == [requester |-> user] @@ r

\* what an endpoint answers: the guard's refusal, or the service's first step
Guarded(op, required, user, served) ==
    WithRequester(IF RolesGuard(required, user) THEN served ELSE Refused(op), user)

TransactionsController_issue(w, user, u, c) ==
    /\ Free(w)
    /\ calls < MaxCalls
    /\ calls' = calls + 1
    /\ Len(txs) + InFlight({"issue_tx"}) < MaxTx
    /\ wk' = [wk EXCEPT ![w] = Guarded("issue", issueRoles, user, issue_findResult(u, c))]
    /\ UNCHANGED <<db, now>>

TransactionsController_return(w, user, t) ==
    /\ Free(w)
    /\ calls < MaxCalls
    /\ calls' = calls + 1
    /\ wk' = [wk EXCEPT ![w] = Guarded("return", returnRoles, user, return_findResult(t))]
    /\ UNCHANGED <<db, now>>

TransactionsController_renew(w, user, t) ==
    /\ Free(w)
    /\ calls < MaxCalls
    /\ calls' = calls + 1
    /\ wk' = [wk EXCEPT ![w] = Guarded("renew", renewRoles, user, renew_findResult(t))]
    /\ UNCHANGED <<db, now>>

TransactionsController_findOverdue(w, user) ==
    /\ Free(w)
    /\ calls < MaxCalls
    /\ calls' = calls + 1
    /\ wk' = [wk EXCEPT ![w] = Guarded("findOverdue", findOverdueRoles, user, findOverdue_findManyResult)]
    /\ UNCHANGED <<db, now>>

\* ---------------------------------------------------------------- BooksService.addCopies
BookExists(b) == b \in BookIds

\* ids the in-flight addCopies batches will allocate
PendingCreates ==
    LET pend(w) == IF wk[w].pc \in {"addCopies_tx", "createBulk_tx"} THEN wk[w].count
                   ELSE IF wk[w].pc = "create_tx" THEN 1 ELSE 0
        RECURSIVE sum(_)
        sum(S) == IF S = {} THEN 0 ELSE LET x == CHOOSE y \in S : TRUE IN pend(x) + sum(S \ {x})
    IN sum(Workers)

\* line 56
countOutOfRange_noUpper(n) == n < MinCount
countOutOfRange(n) == n < MinCount \/ n > MaxCount

\* the bounded runs take a request only while the library stays within cap copies
addCopies_findOneWithin(w, b, n, cap) ==
    /\ Free(w)
    /\ calls < MaxCalls
    /\ calls' = calls + 1
    /\ (n >= MinCount /\ n <= MaxCount /\ BookExists(b)) => nextCopyId - 1 + PendingCreates + n <= cap
    /\ wk' = [wk EXCEPT ![w] =
                IF countOutOfRange(n)
                THEN Done("addCopies", "BadRequest", "Count must be between 1 and 100", [bookId |-> b, count |-> n])
                ELSE IF ~BookExists(b)
                THEN Done("addCopies", "NotFound", "Book not found", [bookId |-> b, count |-> n])
                ELSE [pc |-> "addCopies_tx", bookId |-> b, count |-> n]]
    /\ UNCHANGED <<db, now>>

addCopies_findOne(w, b, n) == addCopies_findOneWithin(w, b, n, MaxCopies)

NewCopy(b) == [bookId |-> b, status |-> DefaultCopyStatus]

\* lines 66-72
addCopiesBookUpdate_totalOnly(b, n) == [books EXCEPT ![b].totalCopies = @ + n]
addCopiesBookUpdate(b, n) == [books EXCEPT ![b].totalCopies = @ + n, ![b].availableCopies = @ + n]

addCopies_tx(w) ==
    /\ wk[w].pc = "addCopies_tx"
    /\ UNCHANGED calls
    /\ LET b == wk[w].bookId
           n == wk[w].count
           ids == nextCopyId .. (nextCopyId + n - 1)
       IN /\ copies' = [c \in DOMAIN copies \cup ids |-> IF c \in ids THEN NewCopy(b) ELSE copies[c]]
          /\ nextCopyId' = nextCopyId + n
          /\ books' = addCopiesBookUpdate(b, n)
          /\ wk' = [wk EXCEPT ![w] = Done("addCopies", "ok", "", [bookId |-> b, count |-> n, ids |-> ids])]
    /\ UNCHANGED <<txs, now>>

\* ---------------------------------------------------------------- BooksService.removeCopies
\* line 85
insufficientAvailable_total(b, n) == books[b].totalCopies < n
insufficientAvailable(b, n) == books[b].availableCopies < n

removeCopies_findOne(w, b, n) ==
    /\ Free(w)
    /\ calls < MaxCalls
    /\ calls' = calls + 1
    /\ wk' = [wk EXCEPT ![w] =
                IF n < MinCount
                THEN Done("removeCopies", "BadRequest", "Count must be at least 1", [bookId |-> b, count |-> n])
                ELSE IF ~BookExists(b)
                THEN Done("removeCopies", "NotFound", "Book not found", [bookId |-> b, count |-> n])
                ELSE IF insufficientAvailable(b, n)
                THEN Done("removeCopies", "BadRequest", "Cannot remove copies", [bookId |-> b, count |-> n])
                ELSE [pc |-> "removeCopies_findMany", bookId |-> b, count |-> n]]
    /\ UNCHANGED <<db, now>>

\* findMany({where: {bookId, status: AVAILABLE}, take: count}) with no orderBy: any
\* count matching rows, or all of them when fewer match
TakeSets(S, n) == {T \in SUBSET S : Cardinality(T) = (IF Cardinality(S) < n THEN Cardinality(S) ELSE n)}

removeCopies_findMany(w) ==
    /\ wk[w].pc = "removeCopies_findMany"
    /\ UNCHANGED calls
    /\ \E T \in TakeSets(AvailableCopiesOf(wk[w].bookId), wk[w].count) :
         wk' = [wk EXCEPT ![w] = [pc |-> "removeCopies_tx", bookId |-> wk[w].bookId,
                                  count |-> wk[w].count, copiesToDelete |-> T]]
    /\ UNCHANGED <<db, now>>

\* bookCopy.delete fails when the row is gone or a transaction row still refers to it
DeleteCopyAllowed(c) == CopyExists(c) /\ ~ReferencedByTx(c)

\* the deletes and the counter update awaited one after another, without $transaction
removeCopies_tx_noRollback(w) ==
    /\ wk[w].pc = "removeCopies_tx"
    /\ UNCHANGED calls
    /\ LET b == wk[w].bookId
           n == wk[w].count
           T == wk[w].copiesToDelete
           deleted == {c \in T : DeleteCopyAllowed(c)}
       IN /\ copies' = [c \in DOMAIN copies \ deleted |-> copies[c]]
          /\ IF deleted = T
             THEN /\ books' = [books EXCEPT ![b].totalCopies = @ - n, ![b].availableCopies = @ - n]
                  /\ wk' = [wk EXCEPT ![w] =
                             Done("removeCopies", "ok", "", [bookId |-> b, count |-> n, deleted |-> T])]
             ELSE /\ wk' = [wk EXCEPT ![w] =
                             Done("removeCopies", "TxError", "transaction rolled back", [bookId |-> b, count |-> n])]
                  /\ UNCHANGED books
          /\ UNCHANGED <<nextCopyId, txs, now>>

removeCopies_tx(w) ==
    /\ wk[w].pc = "removeCopies_tx"
    /\ UNCHANGED calls
    /\ LET b == wk[w].bookId
           n == wk[w].count
           T == wk[w].copiesToDelete
       IN IF \A c \in T : DeleteCopyAllowed(c)
          THEN /\ copies' = [c \in DOMAIN copies \ T |-> copies[c]]
               /\ books' = [books EXCEPT ![b].totalCopies = @ - n, ![b].availableCopies = @ - n]
               /\ wk' = [wk EXCEPT ![w] =
                          Done("removeCopies", "ok", "", [bookId |-> b, count |-> n, deleted |-> T])]
               /\ UNCHANGED <<nextCopyId, txs, now>>
          ELSE /\ wk' = [wk EXCEPT ![w] =
                          Done("removeCopies", "TxError", "transaction rolled back", [bookId |-> b, count |-> n])]
               /\ UNCHANGED <<db, now>>

\* ---------------------------------------------------------------- BooksService.getStats
\* transaction.count({where: {bookCopy: {bookId}, status: {in: [ISSUED, OVERDUE]}}})
issuedCountOf_onlyIssued(b) ==
    Cardinality({i \in 1..Len(txs) : /\ txs[i].status = "ISSUED"
                                     /\ CopyExists(txs[i].bookCopyId)
                                     /\ copies[txs[i].bookCopyId].bookId = b})
issuedCountOf(b) ==
    Cardinality({i \in 1..Len(txs) : /\ txs[i].status \in {"ISSUED", "OVERDUE"}
                                     /\ CopyExists(txs[i].bookCopyId)
                                     /\ copies[txs[i].bookCopyId].bookId = b})

getStats_findOne(w, b) ==
    /\ Free(w)
    /\ calls < MaxCalls
    /\ calls' = calls + 1
    /\ wk' = [wk EXCEPT ![w] =
                IF ~BookExists(b)
                THEN Done("getStats", "NotFound", "Book not found", [bookId |-> b])
                ELSE [pc |-> "getStats_count", bookId |-> b,
                      totalCopies |-> books[b].totalCopies,
                      availableCopies |-> books[b].availableCopies]]
    /\ UNCHANGED <<db, now>>

getStats_count(w) ==
    /\ wk[w].pc = "getStats_count"
    /\ UNCHANGED calls
    /\ wk' = [wk EXCEPT ![w] =
                Done("getStats", "ok", "",
                     [bookId |-> wk[w].bookId,
                      totalCopies |-> wk[w].totalCopies,
                      availableCopies |-> wk[w].availableCopies,
                      issuedCopies |-> issuedCountOf(wk[w].bookId)])]
    /\ UNCHANGED <<db, now>>

\* ---------------------------------------------------------------- InventoryService.create
create_find(w, b) ==
    /\ Free(w)
    /\ calls < MaxCalls
    /\ calls' = calls + 1
    /\ BookExists(b) => nextCopyId - 1 + PendingCreates + 1 <= MaxCopies
    /\ wk' = [wk EXCEPT ![w] =
                IF ~BookExists(b)
                THEN Done("create", "NotFound", "Book not found", [bookId |-> b])
                ELSE [pc |-> "create_tx", bookId |-> b]]
    /\ UNCHANGED <<db, now>>

create_tx(w) ==
    /\ wk[w].pc = "create_tx"
    /\ UNCHANGED calls
    /\ LET b == wk[w].bookId
       IN /\ copies' = [c \in DOMAIN copies \cup {nextCopyId} |->
                          IF c = nextCopyId THEN NewCopy(b) ELSE copies[c]]
          /\ nextCopyId' = nextCopyId + 1
          /\ books' = [books EXCEPT ![b].totalCopies = @ + 1, ![b].availableCopies = @ + 1]
          /\ wk' = [wk EXCEPT ![w] = Done("create", "ok", "", [bookId |-> b, id |-> nextCopyId])]
    /\ UNCHANGED <<txs, now>>

\* ---------------------------------------------------------------- InventoryService.createBulk
createBulk_find(w, b, n) ==
    /\ Free(w)
    /\ calls < MaxCalls
    /\ calls' = calls + 1
    /\ (n >= MinCount /\ n <= MaxCount /\ BookExists(b)) => nextCopyId - 1 + PendingCreates + n <= MaxCopies
    /\ wk' = [wk EXCEPT ![w] =
                IF n < MinCount \/ n > MaxCount
                THEN Done("createBulk", "BadRequest", "Count must be between 1 and 100", [bookId |-> b, count |-> n])
                ELSE IF ~BookExists(b)
                THEN Done("createBulk", "NotFound", "Book not found", [bookId |-> b, count |-> n])
                ELSE [pc |-> "createBulk_tx", bookId |-> b, count |-> n]]
    /\ UNCHANGED <<db, now>>

createBulk_tx(w) ==
    /\ wk[w].pc = "createBulk_tx"
    /\ UNCHANGED calls
    /\ LET b == wk[w].bookId
           n == wk[w].count
           ids == nextCopyId .. (nextCopyId + n - 1)
       IN /\ copies' = [c \in DOMAIN copies \cup ids |-> IF c \in ids THEN NewCopy(b) ELSE copies[c]]
          /\ nextCopyId' = nextCopyId + n
          /\ books' = [books EXCEPT ![b].totalCopies = @ + n, ![b].availableCopies = @ + n]
          /\ wk' = [wk EXCEPT ![w] = Done("createBulk", "ok", "", [bookId |-> b, count |-> n, ids |-> ids])]
    /\ UNCHANGED <<txs, now>>

\* ---------------------------------------------------------------- InventoryService.update
CopyStatuses == {"AVAILABLE", "ISSUED", "LOST"}

update_findOne(w, c, st) ==
    /\ Free(w)
    /\ calls < MaxCalls
    /\ calls' = calls + 1
    /\ wk' = [wk EXCEPT ![w] =
                IF ~CopyExists(c)
                THEN Done("update", "NotFound", "Book copy not found", [id |-> c, status |-> st])
                ELSE [pc |-> "update_update", id |-> c, status |-> st]]
    /\ UNCHANGED <<db, now>>

update_update(w) ==
    /\ wk[w].pc = "update_update"
    /\ UNCHANGED calls
    /\ LET c == wk[w].id
       IN IF CopyExists(c)
          THEN /\ copies' = [copies EXCEPT ![c].status = wk[w].status]
               /\ wk' = [wk EXCEPT ![w] = Done("update", "ok", "", [id |-> c, status |-> wk[w].status])]
               /\ UNCHANGED <<books, nextCopyId, txs, now>>
          ELSE /\ wk' = [wk EXCEPT ![w] =
                          Done("update", "TxError", "record to update not found", [id |-> c, status |-> wk[w].status])]
               /\ UNCHANGED <<db, now>>

\* ---------------------------------------------------------------- InventoryService.remove
remove_findOne(w, c) ==
    /\ Free(w)
    /\ calls < MaxCalls
    /\ calls' = calls + 1
    /\ wk' = [wk EXCEPT ![w] =
                IF ~CopyExists(c)
                THEN Done("remove", "NotFound", "Book copy not found", [id |-> c])
                ELSE [pc |-> "remove_tx", id |-> c, bookId |-> copies[c].bookId, status |-> copies[c].status]]
    /\ UNCHANGED <<db, now>>

\* lines 108-114
removeBookUpdate_both(b, st) == [books EXCEPT ![b].totalCopies = @ - 1, ![b].availableCopies = @ - 1]
removeBookUpdate(b, st) ==
    [books EXCEPT ![b].totalCopies = @ - 1,
                  ![b].availableCopies = IF st = "AVAILABLE" THEN @ - 1 ELSE @]

remove_tx(w) ==
    /\ wk[w].pc = "remove_tx"
    /\ UNCHANGED calls
    /\ LET c == wk[w].id
           b == wk[w].bookId
       IN IF DeleteCopyAllowed(c)
          THEN /\ copies' = [x \in DOMAIN copies \ {c} |-> copies[x]]
               /\ books' = removeBookUpdate(b, wk[w].status)
               /\ wk' = [wk EXCEPT ![w] = Done("remove", "ok", "", [id |-> c])]
               /\ UNCHANGED <<nextCopyId, txs, now>>
          ELSE /\ wk' = [wk EXCEPT ![w] = Done("remove", "TxError", "transaction rolled back", [id |-> c])]
               /\ UNCHANGED <<db, now>>

\* ---------------------------------------------------------------- system
\* the lending operations and the bulk inventory operations of BooksService; a
\* request names a row that exists or the one id that no row has
NextLending ==
    \/ Tick
    \/ \E w \in Workers, u \in IssueUserIds \cup {NoUser}, c \in DOMAIN copies \cup {NoCopyId} : issue_find(w, u, c)
    \/ \E w \in Workers : issue_tx(w)
    \/ \E w \in Workers, t \in 1..Len(txs) \cup {NoTxId} : return_find(w, t)
    \/ \E w \in Workers : return_tx(w)
    \/ \E w \in Workers, t \in 1..Len(txs) \cup {NoTxId} : renew_find(w, t)
    \/ \E w \in Workers : renew_update(w)
    \/ \E w \in Workers : findOverdue_findMany(w)
    \/ \E w \in Workers : findOverdue_updateMany(w)
    \/ \E w \in Workers, b \in BookIds \cup {NoBook}, n \in Counts : addCopies_findOne(w, b, n)
    \/ \E w \in Workers : addCopies_tx(w)
    \/ \E w \in Workers, b \in BookIds \cup {NoBook}, n \in Counts : removeCopies_findOne(w, b, n)
    \/ \E w \in Workers : removeCopies_findMany(w)
    \/ \E w \in Workers : removeCopies_tx(w)

\* the single-copy operations of InventoryService
NextInventory ==
    \/ \E w \in Workers, b \in BookIds \cup {NoBook} : create_find(w, b)
    \/ \E w \in Workers : create_tx(w)
    \/ \E w \in Workers, c \in DOMAIN copies \cup {NoCopyId}, st \in CopyStatuses : update_findOne(w, c, st)
    \/ \E w \in Workers : update_update(w)
    \/ \E w \in Workers, c \in DOMAIN copies \cup {NoCopyId} : remove_findOne(w, c)
    \/ \E w \in Workers : remove_tx(w)

\* InventoryService.createBulk repeats BooksService.addCopies statement for statement
NextBulk ==
    \/ \E w \in Workers, b \in BookIds \cup {NoBook}, n \in Counts : createBulk_find(w, b, n)
    \/ \E w \in Workers : createBulk_tx(w)

Next == NextLending \/ NextInventory

\* every operation, called by concurrent callers
Spec == Init /\ [][Next]_vars

\* the callers use only issue, return, renew, findOverdue, addCopies and removeCopies
SpecLending == Init /\ [][NextLending]_vars

SpecBulk == Init /\ [][Next \/ NextBulk]_vars

\* the statement a caller's handler is suspended at, when its await resolves
Continue(w) ==
    \/ issue_tx(w)
    \/ return_tx(w)
    \/ renew_update(w)
    \/ findOverdue_updateMany(w)
    \/ addCopies_tx(w)
    \/ removeCopies_findMany(w)
    \/ removeCopies_tx(w)

\* the event loop resumes every handler whose await has resolved, and the
\* datastore answers every statement
Fairness == \A w \in Workers : WF_vars(Continue(w))

SpecLive == Init /\ [][NextLending]_vars /\ Fairness

AllFree == \A w \in Workers : Free(w)

\* the same operations when no request arrives while another is being served
NextSequential ==
    \/ Tick
    \/ \E w \in Workers, u \in IssueUserIds \cup {NoUser}, c \in DOMAIN copies \cup {NoCopyId} :
          AllFree /\ issue_find(w, u, c)
    \/ \E w \in Workers : issue_tx(w)
    \/ \E w \in Workers, t \in 1..Len(txs) \cup {NoTxId} : AllFree /\ return_find(w, t)
    \/ \E w \in Workers : return_tx(w)
    \/ \E w \in Workers, t \in 1..Len(txs) \cup {NoTxId} : AllFree /\ renew_find(w, t)
    \/ \E w \in Workers : renew_update(w)
    \/ \E w \in Workers : AllFree /\ findOverdue_findMany(w)
    \/ \E w \in Workers : findOverdue_updateMany(w)
    \/ \E w \in Workers, b \in BookIds \cup {NoBook}, n \in Counts : AllFree /\ addCopies_findOne(w, b, n)
    \/ \E w \in Workers : addCopies_tx(w)
    \/ \E w \in Workers, b \in BookIds \cup {NoBook}, n \in Counts : AllFree /\ removeCopies_findOne(w, b, n)
    \/ \E w \in Workers : removeCopies_findMany(w)
    \/ \E w \in Workers : removeCopies_tx(w)

\* a later state of the same library: two copies, copy 1 issued to u1 at time 0
InitLoan ==
    /\ copies = [c \in {1, 2} |-> [bookId |-> "b1", status |-> IF c = 1 THEN "ISSUED" ELSE "AVAILABLE"]]
    /\ nextCopyId = 3
    /\ books = [b \in BookIds |-> [totalCopies |-> 2, availableCopies |-> 1]]
    /\ txs = << [userId |-> "u1", bookCopyId |-> 1, issueDate |-> 0, dueDate |-> issueDueDate(0),
                 returnDate |-> NoDate, status |-> "ISSUED", renewCount |-> DefaultRenewCount] >>
    /\ now = 0
    /\ wk = [w \in Workers |-> Idle]
    /\ calls = 0

InitSequential == Init \/ InitLoan

SpecSequential == InitSequential /\ [][NextSequential]_vars

\* concurrent requests that are short against the clock's grain: the clock does not
\* jump by days while a request is being served
NextShortRequests ==
    \/ AllFree /\ Tick
    \/ \E w \in Workers, u \in IssueUserIds \cup {NoUser}, c \in DOMAIN copies \cup {NoCopyId} : issue_find(w, u, c)
    \/ \E w \in Workers : issue_tx(w)
    \/ \E w \in Workers, t \in 1..Len(txs) \cup {NoTxId} : return_find(w, t)
    \/ \E w \in Workers : return_tx(w)
    \/ \E w \in Workers, t \in 1..Len(txs) \cup {NoTxId} : renew_find(w, t)
    \/ \E w \in Workers : renew_update(w)
    \/ \E w \in Workers : findOverdue_findMany(w)
    \/ \E w \in Workers : findOverdue_updateMany(w)
    \/ \E w \in Workers, b \in BookIds \cup {NoBook}, n \in Counts : addCopies_findOne(w, b, n)
    \/ \E w \in Workers : addCopies_tx(w)
    \/ \E w \in Workers, b \in BookIds \cup {NoBook}, n \in Counts : removeCopies_findOne(w, b, n)
    \/ \E w \in Workers : removeCopies_findMany(w)
    \/ \E w \in Workers : removeCopies_tx(w)

SpecShortRequests == Init /\ [][NextShortRequests]_vars

\* a later state of the same library: u1 borrowed copy 1 at time 0 and returned it
\* the next day, u2 borrowed copy 2 that day, u1 borrowed copy 1 again a day later
InitReads ==
    /\ copies = [c \in {1, 2} |-> [bookId |-> "b1", status |-> "ISSUED"]]
    /\ nextCopyId = 3
    /\ books = [b \in BookIds |-> [totalCopies |-> 2, availableCopies |-> 0]]
    /\ txs = << [userId |-> "u1", bookCopyId |-> 1, issueDate |-> 0, dueDate |-> issueDueDate(0),
                 returnDate |-> HoursPerDay, status |-> "RETURNED", renewCount |-> DefaultRenewCount],
                [userId |-> "u2", bookCopyId |-> 2, issueDate |-> HoursPerDay,
                 dueDate |-> issueDueDate(HoursPerDay),
                 returnDate |-> NoDate, status |-> "ISSUED", renewCount |-> DefaultRenewCount],
                [userId |-> "u1", bookCopyId |-> 1, issueDate |-> 2 * HoursPerDay,
                 dueDate |-> issueDueDate(2 * HoursPerDay),
                 returnDate |-> NoDate, status |-> "ISSUED", renewCount |-> DefaultRenewCount] >>
    /\ now = 2 * HoursPerDay
    /\ wk = [w \in Workers |-> Idle]
    /\ calls = 0

ReadTimes == {2 * HoursPerDay, 16 * HoursPerDay}

\* the read endpoints, called by students and staff while records are returned and swept
NextReads ==
    \/ TickIn(ReadTimes)
    \/ \E w \in Workers, user \in Requesters : findAll(w, user)
    \/ \E w \in Workers, userId \in UserIds \cup {NoUser}, user \in Requesters : findActiveByUser(w, userId, user)
    \/ \E w \in Workers, t \in 1..Len(txs) \cup {NoTxId}, user \in Requesters : findOne(w, t, user)
    \/ \E w \in Workers, t \in 1..Len(txs) : return_find(w, t)
    \/ \E w \in Workers : return_tx(w)
    \/ \E w \in Workers : findOverdue_findMany(w)
    \/ \E w \in Workers : findOverdue_updateMany(w)

SpecReads == InitReads /\ [][NextReads]_vars

\* the transaction endpoints, each request with its requester
NextEndpoints ==
    \/ Tick
    \/ \E w \in Workers, user \in Requesters, u \in IssueUserIds, c \in DOMAIN copies :
          TransactionsController_issue(w, user, u, c)
    \/ \E w \in Workers : issue_tx(w)
    \/ \E w \in Workers, user \in Requesters, t \in 1..Len(txs) : TransactionsController_return(w, user, t)
    \/ \E w \in Workers : return_tx(w)
    \/ \E w \in Workers, user \in Requesters, t \in 1..Len(txs) : TransactionsController_renew(w, user, t)
    \/ \E w \in Workers : renew_update(w)
    \/ \E w \in Workers, user \in Requesters : TransactionsController_findOverdue(w, user)
    \/ \E w \in Workers : findOverdue_updateMany(w)

SpecEndpoints == InitSequential /\ [][NextEndpoints]_vars

\* the walk-through of the specification: an empty shelf, addCopies(4), one issue,
\* one return, one request at a time, the clock moving between requests
ScenarioCounts == {1, 4}
ScenarioCopies == Max(1, 4)

NextScenario ==
    \/ AllFree /\ Tick
    \/ \E w \in Workers, b \in BookIds, n \in ScenarioCounts :
          AllFree /\ addCopies_findOneWithin(w, b, n, ScenarioCopies)
    \/ \E w \in Workers : addCopies_tx(w)
    \/ \E w \in Workers, u \in IssueUserIds, c \in DOMAIN copies : AllFree /\ issue_find(w, u, c)
    \/ \E w \in Workers : issue_tx(w)
    \/ \E w \in Workers, t \in 1..Len(txs) : AllFree /\ return_find(w, t)
    \/ \E w \in Workers : return_tx(w)

SpecScenario == Init /\ [][NextScenario]_vars

\* the operations that create and delete copy rows, and no lending
NextCopies ==
    \/ \E w \in Workers, b \in BookIds \cup {NoBook}, n \in Counts : addCopies_findOne(w, b, n)
    \/ \E w \in Workers : addCopies_tx(w)
    \/ \E w \in Workers, b \in BookIds \cup {NoBook}, n \in Counts : createBulk_find(w, b, n)
    \/ \E w \in Workers : createBulk_tx(w)
    \/ \E w \in Workers, b \in BookIds \cup {NoBook} : create_find(w, b)
    \/ \E w \in Workers : create_tx(w)
    \/ \E w \in Workers, c \in DOMAIN copies \cup {NoCopyId} : remove_findOne(w, c)
    \/ \E w \in Workers : remove_tx(w)
    \/ \E w \in Workers, b \in BookIds \cup {NoBook}, n \in Counts : removeCopies_findOne(w, b, n)
    \/ \E w \in Workers : removeCopies_findMany(w)
    \/ \E w \in Workers : removeCopies_tx(w)

SpecCopies == Init /\ [][NextCopies]_vars

\* the lending operations with getStats callers beside them
NextStats ==
    \/ \E w \in Workers, b \in BookIds \cup {NoBook} : getStats_findOne(w, b)
    \/ \E w \in Workers : getStats_count(w)

SpecStats == Init /\ [][NextLending \/ NextStats]_vars

\* ---------------------------------------------------------------- one loan, fine-grained clock
FineTimes == {0, 13 * 24, 14 * 24 - 1, 14 * 24, 14 * 24 + 1, 14 * 24 + 23, 15 * 24, 15 * 24 + 1,
              16 * 24 - 1, 16 * 24, 17 * 24 + 5, 21 * 24, 21 * 24 + 23, 22 * 24, 24 * 24 + 7}

TickFine == TickIn(FineTimes)

\* copy 1 was issued to u1 at time 0
InitFine ==
    /\ copies = [c \in {1} |-> [bookId |-> "b1", status |-> "ISSUED"]]
    /\ nextCopyId = 2
    /\ books = [b \in BookIds |-> [totalCopies |-> 1, availableCopies |-> 0]]
    /\ txs = << [userId |-> "u1", bookCopyId |-> 1, issueDate |-> 0, dueDate |-> addDays(0, LoanDays),
                 returnDate |-> NoDate, status |-> "ISSUED", renewCount |-> DefaultRenewCount] >>
    /\ now = 0
    /\ wk = [w \in Workers |-> Idle]
    /\ calls = 0

NextFine ==
    \/ TickFine
    \/ \E w \in Workers, t \in 1..Len(txs) : return_find(w, t)
    \/ \E w \in Workers : return_tx(w)
    \/ \E w \in Workers, t \in 1..Len(txs) : renew_find(w, t)
    \/ \E w \in Workers : renew_update(w)

SpecFine == InitFine /\ [][NextFine]_vars

\* ================================================================ properties
\* the arguments a caller's record carries, in flight or finished
ArgOf(r, f) == IF r.pc = "done" THEN r.out[f] ELSE r[f]

\* this step is worker w's call of operation op: w was free, one more call was
\* counted, and w's record became a record of op
Calls(w, op, pcs) ==
    /\ Free(w)
    /\ calls' = calls + 1
    /\ wk'[w] # wk[w]
    /\ \/ wk'[w].pc \in pcs
       \/ wk'[w].pc = "done" /\ wk'[w].op = op

Failed(r, res, msg) == r.pc = "done" /\ r.res = res /\ r.msg = msg
Finished(w, op, res) == wk[w].pc = "done" /\ wk[w].op = op /\ wk[w].res = res

\* C1: each book's stored availableCopies equals the number of its copies whose
\* status is AVAILABLE, in every reachable state
C1_AvailableMatchesCopies ==
    \A b \in BookIds : books[b].availableCopies = Cardinality(AvailableCopiesOf(b))

\* C2: for every book 0 <= availableCopies <= totalCopies, in every reachable state
C2_CountersInRange ==
    \A b \in BookIds :
        /\ 0 <= books[b].availableCopies
        /\ books[b].availableCopies <= books[b].totalCopies

\* C3: every copy is referenced by at most one lending record whose status is
\* ISSUED or OVERDUE
C3_AtMostOneOpenRecord ==
    \A c \in CopyIds : Cardinality(OpenTxsOf(c)) <= 1

\* C4: when the only calls made are two issue calls, one by each caller, against the
\* one AVAILABLE copy of a book with availableCopies = 1, then once both have
\* finished exactly one has succeeded, the other has failed the copy-status
\* precondition, one lending record exists and availableCopies is 0
BothIssuedCopy1 ==
    /\ calls = 2
    /\ nextCopyId = 2
    /\ \A w \in Workers :
         /\ wk[w].pc = "done"
         /\ wk[w].op = "issue"
         /\ wk[w].out.userId \in UserIds
         /\ wk[w].out.bookCopyId = 1

C4_ExactlyOneIssueSucceeds ==
    BothIssuedCopy1 =>
        /\ Cardinality({w \in Workers : wk[w].res = "ok"}) = 1
        /\ \A w \in Workers :
             wk[w].res # "ok" => Failed(wk[w], "BadRequest", "Book copy is not available")
        /\ Len(txs) = 1
        /\ books["b1"].availableCopies = 0

\* C5: a return call on a record that is already RETURNED fails with
\* 'Book already returned' and leaves books, copies and lending records as they were
C5_SecondReturnRejected ==
    [][\A w \in Workers :
        Calls(w, "return", {"return_tx"})
        => LET t == ArgOf(wk'[w], "transactionId")
           IN (t \in 1..Len(txs) /\ txs[t].status = "RETURNED")
              => (Failed(wk'[w], "BadRequest", "Book already returned") /\ UNCHANGED db)]_vars

C5_Witness ==
    \E w \in Workers :
        /\ Finished(w, "return", "BadRequest")
        /\ txs[wk[w].out.transactionId].status = "RETURNED"
        /\ txs[wk[w].out.transactionId].returnDate # NoDate

\* C6: a successful issue appends exactly one lending record with status ISSUED,
\* renewCount 0, no returnDate and dueDate = the handler's clock reading + 14 days,
\* sets that copy's status to ISSUED and decrements the owning book's
\* availableCopies by exactly 1, in one step; totalCopies, every other copy, book
\* and record are unchanged
C6_IssueEffect ==
    [][\A w \in Workers :
        /\ (Calls(w, "issue", {"issue_tx"}) /\ wk'[w].pc = "issue_tx")
              => wk'[w].dueDate = now + 14 * 24
        /\ (wk[w].pc = "issue_tx" /\ wk'[w].pc = "done" /\ wk'[w].res = "ok")
              => LET c == wk[w].bookCopyId
                     b == copies[c].bookId
                     n == Len(txs) + 1
                 IN /\ Len(txs') = n
                    /\ \A i \in 1..Len(txs) : txs'[i] = txs[i]
                    /\ txs'[n].status = "ISSUED"
                    /\ txs'[n].renewCount = 0
                    /\ txs'[n].returnDate = NoDate
                    /\ txs'[n].userId = wk[w].userId
                    /\ txs'[n].bookCopyId = c
                    /\ txs'[n].dueDate = wk[w].dueDate
                    /\ txs'[n].issueDate = now
                    /\ txs'[n].dueDate <= txs'[n].issueDate + 14 * 24
                    /\ wk'[w].out.id = n
                    /\ DOMAIN copies' = DOMAIN copies
                    /\ copies'[c] = [bookId |-> b, status |-> "ISSUED"]
                    /\ \A x \in DOMAIN copies \ {c} : copies'[x] = copies[x]
                    /\ books'[b].availableCopies = books[b].availableCopies - 1
                    /\ books'[b].totalCopies = books[b].totalCopies
                    /\ \A y \in BookIds \ {b} : books'[y] = books[y]]_vars

C6_Witness ==
    \E w \in Workers :
        /\ Finished(w, "issue", "ok")
        /\ txs[wk[w].out.id].status = "ISSUED"
        /\ txs[wk[w].out.id].dueDate = txs[wk[w].out.id].issueDate + 14 * 24
        /\ copies[wk[w].out.bookCopyId].status = "ISSUED"
        /\ Cardinality(DOMAIN copies) = 2

\* C7: issue fails with NotFound when the borrower or the copy does not exist and
\* with a precondition error when the copy's status is not AVAILABLE (in particular
\* when an earlier issue of that copy succeeded) or the book's availableCopies <= 0;
\* a failing issue creates no record and changes no copy or counter
C7_IssueRejected ==
    [][\A w \in Workers :
        Calls(w, "issue", {"issue_tx"})
        => LET u == ArgOf(wk'[w], "userId")
               c == ArgOf(wk'[w], "bookCopyId")
           IN
           /\ u \notin UserIds => Failed(wk'[w], "NotFound", "User not found")
           /\ (u \in UserIds /\ c \notin DOMAIN copies) => Failed(wk'[w], "NotFound", "Book copy not found")
           /\ (u \in UserIds /\ c \in DOMAIN copies /\ copies[c].status \in {"ISSUED", "LOST"})
                 => Failed(wk'[w], "BadRequest", "Book copy is not available")
           /\ (u \in UserIds /\ c \in DOMAIN copies /\ copies[c].status = "AVAILABLE"
                 /\ books[copies[c].bookId].availableCopies <= 0)
                 => Failed(wk'[w], "BadRequest", "No available copies for this book")
           /\ (wk'[w].pc = "done" /\ wk'[w].res # "ok") => UNCHANGED db]_vars

\* an issue of a copy succeeded, and a later issue of the same copy has failed on
\* the copy-status check
C7_Witness ==
    \E w \in Workers :
        /\ Finished(w, "issue", "BadRequest")
        /\ wk[w].msg = "Book copy is not available"
        /\ \E i \in 1..Len(txs) : txs[i].bookCopyId = wk[w].out.bookCopyId /\ txs[i].status = "ISSUED"
        /\ copies[wk[w].out.bookCopyId].status = "ISSUED"

\* C8: a successful return of a record whose status is ISSUED or OVERDUE sets the
\* record's status to RETURNED and its returnDate to the handler's clock reading,
\* sets the copy's status to AVAILABLE and increments the book's availableCopies by
\* exactly 1, in one step; totalCopies, dueDate and renewCount are unchanged
C8_ReturnEffect ==
    [][\A w \in Workers :
        /\ (Calls(w, "return", {"return_tx"}) /\ wk'[w].pc = "return_tx")
              => wk'[w].returnDate = now
        /\ (wk[w].pc = "return_tx" /\ wk'[w].pc = "done" /\ wk'[w].res = "ok")
              => LET t == wk[w].transactionId
                     c == txs[t].bookCopyId
                     b == copies[c].bookId
                 IN /\ txs'[t].status = "RETURNED"
                    /\ txs'[t].returnDate = wk[w].returnDate
                    /\ txs'[t].returnDate <= now
                    /\ txs'[t].dueDate = txs[t].dueDate
                    /\ txs'[t].renewCount = txs[t].renewCount
                    /\ copies'[c].status = "AVAILABLE"
                    /\ books'[b].availableCopies = books[b].availableCopies + 1
                    /\ books'[b].totalCopies = books[b].totalCopies]_vars

C8_Witness ==
    \E w \in Workers :
        /\ Finished(w, "return", "ok")
        /\ txs[wk[w].out.transactionId].status = "RETURNED"
        /\ txs[wk[w].out.transactionId].returnDate = now
        /\ copies[txs[wk[w].out.transactionId].bookCopyId].status = "AVAILABLE"
        /\ books["b1"].availableCopies = 1

\* C9: return reports overdueDays = max(0, floor((returnTime - dueDate) / one day))
\* and fine = 10 * overdueDays: 0 whenever less than one full day has passed since
\* dueDate, never negative, 10 more for each further whole day
C9_FineIsTenPerWholeDay ==
    [][\A w \in Workers :
        /\ (Calls(w, "return", {"return_tx"}) /\ wk'[w].pc = "return_tx")
              => LET late == now - txs[wk'[w].transactionId].dueDate
                     od == wk'[w].overdueDays
                 IN /\ od >= 0
                    /\ late < 24 => od = 0
                    /\ late >= 0 => (24 * od <= late /\ late < 24 * (od + 1))
                    /\ wk'[w].fine = 10 * od
        /\ (wk[w].pc = "return_tx" /\ wk'[w].pc = "done" /\ wk'[w].res = "ok")
              => /\ wk'[w].out.overdueDays = wk[w].overdueDays
                 /\ wk'[w].out.fine = wk[w].fine]_vars

\* a return two whole days and a fraction after dueDate reported a fine of 20
C9_Witness ==
    \E w \in Workers :
        /\ Finished(w, "return", "ok")
        /\ wk[w].out.overdueDays = 2
        /\ wk[w].out.fine = 20
        /\ txs[wk[w].out.transactionId].returnDate - txs[wk[w].out.transactionId].dueDate > 2 * 24

\* C10: renew fails with NotFound when the record does not exist and with a
\* precondition error when the record's status is not ISSUED (OVERDUE or RETURNED)
\* or its renewCount >= 1; a failing renew leaves every dueDate and renewCount
\* unchanged
C10_RenewRejected ==
    [][\A w \in Workers :
        Calls(w, "renew", {"renew_update"})
        => LET t == ArgOf(wk'[w], "transactionId")
           IN
           /\ t \notin 1..Len(txs) => Failed(wk'[w], "NotFound", "Transaction not found")
           /\ (t \in 1..Len(txs) /\ txs[t].status \in {"OVERDUE", "RETURNED"})
                 => Failed(wk'[w], "BadRequest", "Only issued books can be renewed")
           /\ (t \in 1..Len(txs) /\ txs[t].status = "ISSUED" /\ txs[t].renewCount >= 1)
                 => Failed(wk'[w], "BadRequest", "Maximum renewal limit reached")
           /\ (wk'[w].pc = "done" /\ wk'[w].res # "ok") => UNCHANGED db]_vars

\* a renew of an OVERDUE record has been refused
C10_Witness ==
    \E w \in Workers :
        /\ Finished(w, "renew", "BadRequest")
        /\ wk[w].msg = "Only issued books can be renewed"
        /\ txs[wk[w].out.transactionId].status = "OVERDUE"
        /\ txs[wk[w].out.transactionId].renewCount = 0

\* C11: in every step every lending record keeps renewCount in {0, 1} and its dueDate
\* moves by exactly 7 days times the change of its renewCount, and a new record
\* starts with renewCount 0, so dueDate is always the issue dueDate + 7 days *
\* renewCount; a successful renew leaves renewCount = 1 and dueDate = D + 7 days,
\* and a renew called on a record whose renewCount is 1 fails
C11_RenewOnceBySevenDays ==
    [][/\ \A i \in 1..Len(txs) :
            /\ txs'[i].renewCount \in {0, 1}
            /\ txs'[i].dueDate = txs[i].dueDate + 7 * 24 * (txs'[i].renewCount - txs[i].renewCount)
       /\ \A i \in (Len(txs) + 1)..Len(txs') : txs'[i].renewCount = 0
       /\ \A w \in Workers :
            /\ (wk[w].pc = "renew_update" /\ wk'[w].pc = "done" /\ wk'[w].res = "ok")
                  => LET t == wk[w].transactionId
                     IN /\ txs'[t].renewCount = 1
                        /\ txs[t].renewCount = 0 => txs'[t].dueDate = txs[t].dueDate + 7 * 24
            /\ Calls(w, "renew", {"renew_update"})
                  => LET t == ArgOf(wk'[w], "transactionId")
                     IN (t \in 1..Len(txs) /\ txs[t].renewCount = 1)
                           => (wk'[w].pc = "done" /\ wk'[w].res = "BadRequest")]_vars

\* one renew of a record succeeded and a second renew of it was refused at the limit
C11_Witness ==
    \E w \in Workers, v \in Workers :
        /\ Finished(w, "renew", "ok")
        /\ Finished(v, "renew", "BadRequest")
        /\ wk[v].msg = "Maximum renewal limit reached"
        /\ wk[v].out.transactionId = wk[w].out.transactionId
        /\ txs[wk[w].out.transactionId].renewCount = 1
        /\ txs[wk[w].out.transactionId].dueDate >= 21 * 24

\* C12: a renew call, failing or succeeding, changes no copy and no book counter;
\* its update step changes no other record and, in the renewed record, nothing but
\* dueDate and renewCount (status, issueDate, returnDate, borrower and copy stay)
C12_RenewFrame ==
    [][\A w \in Workers :
        /\ Calls(w, "renew", {"renew_update"}) => UNCHANGED db
        /\ (wk[w].pc = "renew_update" /\ wk'[w].pc = "done")
              => LET t == wk[w].transactionId
                 IN /\ UNCHANGED <<books, copies, nextCopyId>>
                    /\ Len(txs') = Len(txs)
                    /\ \A i \in 1..Len(txs) : i # t => txs'[i] = txs[i]
                    /\ txs'[t].status = txs[t].status
                    /\ txs'[t].issueDate = txs[t].issueDate
                    /\ txs'[t].returnDate = txs[t].returnDate
                    /\ txs'[t].userId = txs[t].userId
                    /\ txs'[t].bookCopyId = txs[t].bookCopyId]_vars

\* a renew has succeeded on a record that was returned between the renew's read
\* and its update: the record is still RETURNED and carries the new dueDate
C12_Witness ==
    \E w \in Workers :
        /\ Finished(w, "renew", "ok")
        /\ txs[wk[w].out.transactionId].renewCount = 1
        /\ txs[wk[w].out.transactionId].status = "RETURNED"
        /\ copies[txs[wk[w].out.transactionId].bookCopyId].status = "AVAILABLE"

\* C13: the step in which addCopies(book, count) succeeds has 1 <= count <= 100,
\* adds exactly count copy rows, all of that book and all AVAILABLE, and adds count
\* to that book's totalCopies and availableCopies, all in that one step; the copies
\* that existed, the other books and every lending record are unchanged
C13_AddCopiesEffect ==
    [][\A w \in Workers :
        (wk[w].pc = "addCopies_tx" /\ wk'[w].pc = "done" /\ wk'[w].res = "ok")
        => LET b == wk[w].bookId
               n == wk[w].count
               new == DOMAIN copies' \ DOMAIN copies
           IN /\ 1 <= n /\ n <= 100
              /\ wk'[w].op = "addCopies"
              /\ DOMAIN copies \subseteq DOMAIN copies'
              /\ Cardinality(new) = n
              /\ \A c \in new : copies'[c] = [bookId |-> b, status |-> "AVAILABLE"]
              /\ \A c \in DOMAIN copies : copies'[c] = copies[c]
              /\ books'[b].totalCopies = books[b].totalCopies + n
              /\ books'[b].availableCopies = books[b].availableCopies + n
              /\ \A y \in BookIds \ {b} : books'[y] = books[y]
              /\ txs' = txs]_vars

\* addCopies(b1, 2) has succeeded on the empty book
C13_Witness ==
    \E w \in Workers :
        /\ Finished(w, "addCopies", "ok")
        /\ wk[w].out.count = 2
        /\ wk[w].out.ids = DOMAIN copies
        /\ Cardinality(AvailableCopiesOf("b1")) = 2
        /\ books["b1"] = [totalCopies |-> 2, availableCopies |-> 2]

\* C14: addCopies fails with 'Count must be between 1 and 100' when count < 1 or
\* count > 100 and with 'Book not found' when the count is in range and the book is
\* absent; a failing addCopies creates no copy and changes no counter
C14_AddCopiesRejected ==
    [][\A w \in Workers :
        Calls(w, "addCopies", {"addCopies_tx"})
        => LET b == ArgOf(wk'[w], "bookId")
               n == ArgOf(wk'[w], "count")
           IN /\ (n < 1 \/ n > 100) => Failed(wk'[w], "BadRequest", "Count must be between 1 and 100")
              /\ (1 <= n /\ n <= 100 /\ b \notin BookIds) => Failed(wk'[w], "NotFound", "Book not found")
              /\ (wk'[w].pc = "done" /\ wk'[w].res # "ok") => UNCHANGED db]_vars

\* one addCopies was refused for count 101 and another for the absent book
C14_Witness ==
    \E w \in Workers, v \in Workers :
        /\ Finished(w, "addCopies", "BadRequest")
        /\ wk[w].out.count = 101
        /\ Finished(v, "addCopies", "NotFound")
        /\ wk[v].out.bookId = NoBook
        /\ wk[v].out.count \in 1..100

\* C15: removeCopies fails with 'Count must be at least 1' when count < 1 and with
\* 'Cannot remove copies' when count is greater than the book's availableCopies; in
\* both cases no copy is deleted and no counter changes
C15_RemoveCopiesRejected ==
    [][\A w \in Workers :
        Calls(w, "removeCopies", {"removeCopies_findMany"})
        => LET b == ArgOf(wk'[w], "bookId")
               n == ArgOf(wk'[w], "count")
           IN /\ n < 1 => Failed(wk'[w], "BadRequest", "Count must be at least 1")
              /\ (n >= 1 /\ b \in BookIds /\ n > books[b].availableCopies)
                    => Failed(wk'[w], "BadRequest", "Cannot remove copies")
              /\ (wk'[w].pc = "done" /\ wk'[w].res # "ok") => UNCHANGED db]_vars

\* removeCopies(b1, 2) was refused on a book with two copies, one of them AVAILABLE
C15_Witness ==
    \E w \in Workers :
        /\ Finished(w, "removeCopies", "BadRequest")
        /\ wk[w].msg = "Cannot remove copies"
        /\ wk[w].out.count = 2
        /\ books["b1"] = [totalCopies |-> 2, availableCopies |-> 1]
        /\ Cardinality(CopiesOf("b1")) = 2

\* C16: the step in which removeCopies(book, count) succeeds deletes exactly count
\* copy rows, all of that book, and subtracts exactly count from that book's
\* totalCopies and availableCopies
C16_RemoveCopiesExact ==
    [][\A w \in Workers :
        (wk[w].pc = "removeCopies_tx" /\ wk'[w].pc = "done" /\ wk'[w].res = "ok")
        => LET b == wk[w].bookId
               n == wk[w].count
               deleted == DOMAIN copies \ DOMAIN copies'
           IN /\ Cardinality(deleted) = n
              /\ \A c \in deleted : copies[c].bookId = b
              /\ books'[b].totalCopies = books[b].totalCopies - n
              /\ books'[b].availableCopies = books[b].availableCopies - n]_vars

\* C17: every copy row that a removeCopies batch deletes has status AVAILABLE at
\* the moment of the deletion and no ISSUED or OVERDUE lending record
C17_RemoveCopiesOnlyAvailable ==
    [][\A w \in Workers :
        (wk[w].pc = "removeCopies_tx" /\ wk'[w].pc = "done" /\ wk'[w].res = "ok")
        => \A c \in DOMAIN copies \ DOMAIN copies' :
              /\ copies[c].status = "AVAILABLE"
              /\ OpenTxsOf(c) = {}]_vars

C19_StatusOnlyByLending ==
    [][\A c \in DOMAIN copies \cap DOMAIN copies' :
        copies'[c].status # copies[c].status
        => LET b == copies[c].bookId
           IN \/ copies'[c].status = "LOST"
              \/ \E w \in Workers :
                    /\ wk[w].pc = "issue_tx" /\ wk[w].bookCopyId = c
                    /\ wk'[w].pc = "done" /\ wk'[w].res = "ok"
                    /\ copies'[c].status = "ISSUED"
                    /\ Len(txs') = Len(txs) + 1
                    /\ txs'[Len(txs')].bookCopyId = c
                    /\ txs'[Len(txs')].status = "ISSUED"
                    /\ books'[b].availableCopies = books[b].availableCopies - 1
              \/ \E w \in Workers :
                    /\ wk[w].pc = "return_tx" /\ wk[w].bookCopyId = c
                    /\ wk'[w].pc = "done" /\ wk'[w].res = "ok"
                    /\ copies'[c].status = "AVAILABLE"
                    /\ txs[wk[w].transactionId].bookCopyId = c
                    /\ txs'[wk[w].transactionId].status = "RETURNED"
                    /\ books'[b].availableCopies = books[b].availableCopies + 1]_vars

\* C20: getStats fails with 'Book not found' for an absent book; for a book that
\* exists it returns the totalCopies and availableCopies stored when it read the
\* book, and issuedCopies = the number of lending records with status ISSUED or
\* OVERDUE whose copy belongs to the book when it counts; neither step changes the
\* datastore
C20_GetStats ==
    [][\A w \in Workers :
        /\ Calls(w, "getStats", {"getStats_count"})
              => LET b == ArgOf(wk'[w], "bookId")
                 IN /\ UNCHANGED db
                    /\ b \notin BookIds => Failed(wk'[w], "NotFound", "Book not found")
                    /\ b \in BookIds
                          => /\ wk'[w].pc = "getStats_count"
                             /\ wk'[w].totalCopies = books[b].totalCopies
                             /\ wk'[w].availableCopies = books[b].availableCopies
        /\ (wk[w].pc = "getStats_count" /\ wk'[w].pc = "done")
              => LET b == wk[w].bookId
                 IN /\ UNCHANGED db
                    /\ wk'[w].res = "ok"
                    /\ wk'[w].out.totalCopies = wk[w].totalCopies
                    /\ wk'[w].out.availableCopies = wk[w].availableCopies
                    /\ wk'[w].out.issuedCopies =
                          Cardinality({i \in 1..Len(txs) :
                              /\ txs[i].status = "ISSUED" \/ txs[i].status = "OVERDUE"
                              /\ copies[txs[i].bookCopyId].bookId = b})]_vars

\* getStats(b1) has counted one issued copy while the only lending record is OVERDUE
C20_Witness ==
    \E w \in Workers :
        /\ Finished(w, "getStats", "ok")
        /\ wk[w].out.issuedCopies = 1
        /\ wk[w].out.totalCopies = 1
        /\ wk[w].out.availableCopies = 0
        /\ Len(txs) = 1
        /\ txs[1].status = "OVERDUE"

\* C21: the update step of a sweep that read the clock as t sets to OVERDUE exactly
\* the records that are ISSUED with dueDate < t and leaves every other record, every
\* copy and every counter as it was; the sweep returns exactly those records, with
\* the contents they had before the step (status ISSUED); t is the clock at the call
C21_SweepReclassifiesExactly ==
    [][\A w \in Workers :
        /\ Calls(w, "findOverdue", {"findOverdue_updateMany"}) => wk'[w].now = now
        /\ (wk[w].pc = "findOverdue_updateMany" /\ wk'[w].pc = "done")
              => LET t == wk[w].now
                     S == {i \in 1..Len(txs) : txs[i].status = "ISSUED" /\ txs[i].dueDate < t}
                 IN /\ Len(txs') = Len(txs)
                    /\ \A i \in S : txs'[i] = [txs[i] EXCEPT !.status = "OVERDUE"]
                    /\ \A i \in (1..Len(txs)) \ S : txs'[i] = txs[i]
                    /\ UNCHANGED <<books, copies>>
                    /\ DOMAIN wk'[w].out.overdue = S
                    /\ \A i \in S : wk'[w].out.overdue[i] = txs[i]]_vars

\* a sweep has returned record 1 and made it OVERDUE while record 2, ISSUED and
\* not yet due, stayed ISSUED
C21_Witness ==
    \E w \in Workers :
        /\ Finished(w, "findOverdue", "ok")
        /\ DOMAIN wk[w].out.overdue = {1}
        /\ wk[w].out.overdue[1].status = "ISSUED"
        /\ Len(txs) = 2
        /\ txs[1].status = "OVERDUE"
        /\ txs[2].status = "ISSUED"
        /\ txs[2].dueDate >= wk[w].out.now

\* C22: after the update step of a sweep that read the clock as t no record is
\* ISSUED with dueDate < t; a sweep called when no record is ISSUED with dueDate <
\* now finds nothing; and a sweep that found nothing returns an empty list and
\* changes no record. So a second sweep with no new lapse is a no-op
C22_SweepIdempotent ==
    [][\A w \in Workers :
        /\ (wk[w].pc = "findOverdue_updateMany" /\ wk'[w].pc = "done")
              => /\ \A i \in 1..Len(txs') : ~(txs'[i].status = "ISSUED" /\ txs'[i].dueDate < wk[w].now)
                 /\ DOMAIN wk[w].overdue = {}
                       => (UNCHANGED db /\ DOMAIN wk'[w].out.overdue = {})
        /\ (Calls(w, "findOverdue", {"findOverdue_updateMany"})
               /\ \A i \in 1..Len(txs) : ~(txs[i].status = "ISSUED" /\ txs[i].dueDate < now))
              => DOMAIN wk'[w].overdue = {}]_vars

\* two sweeps read the same clock: one returned record 1, the other returned nothing
C22_Witness ==
    \E w \in Workers, v \in Workers :
        /\ Finished(w, "findOverdue", "ok")
        /\ Finished(v, "findOverdue", "ok")
        /\ wk[v].out.now = wk[w].out.now
        /\ DOMAIN wk[w].out.overdue = {1}
        /\ DOMAIN wk[v].out.overdue = {}
        /\ txs[1].status = "OVERDUE"

\* C23: the records a sweep call returns are exactly the records its update step
\* moves from ISSUED to OVERDUE
C23_SweepReturnsWhatItReclassified ==
    [][\A w \in Workers :
        (wk[w].pc = "findOverdue_updateMany" /\ wk'[w].pc = "done")
        => DOMAIN wk'[w].out.overdue =
              {i \in 1..Len(txs) : txs[i].status = "ISSUED" /\ txs'[i].status = "OVERDUE"}]_vars

\* C24: findAll called by a STUDENT returns exactly the records whose userId is the
\* requester's id, called by an ADMIN or LIBRARIAN returns every record; each record
\* appears once, in an order of non-increasing issueDate; nothing is written
C24_FindAllByRole ==
    [][\A w \in Workers :
        Calls(w, "findAll", {})
        => LET user == wk'[w].out.user
               q == wk'[w].out.list
               shown == {q[i] : i \in DOMAIN q}
           IN /\ wk'[w].res = "ok"
              /\ user.role = "STUDENT" => shown = {i \in 1..Len(txs) : txs[i].userId = user.id}
              /\ user.role \in {"ADMIN", "LIBRARIAN"} => shown = 1..Len(txs)
              /\ Cardinality(DOMAIN q) = Cardinality(shown)
              /\ \A i, j \in DOMAIN q : i < j => txs[q[i]].issueDate >= txs[q[j]].issueDate
              /\ UNCHANGED db]_vars

\* student u1 listed records 3 and 1, newest first, and not record 2 of u2
C24_Witness ==
    \E w \in Workers :
        /\ Finished(w, "findAll", "ok")
        /\ wk[w].out.user = [id |-> "u1", role |-> "STUDENT"]
        /\ wk[w].out.list = <<3, 1>>
        /\ txs[2].userId = "u2"

\* C25: findOne fails with 'Transaction not found' when no record has the id, with
\* Forbidden when the requester is a STUDENT and the record's userId is not the
\* requester's id, and returns the record to its borrower and to every ADMIN or
\* LIBRARIAN
C25_FindOneAccess ==
    [][\A w \in Workers :
        Calls(w, "findOne", {})
        => LET user == wk'[w].out.user
               t == wk'[w].out.id
           IN /\ t \notin 1..Len(txs) => Failed(wk'[w], "NotFound", "Transaction not found")
              /\ (t \in 1..Len(txs) /\ user.role = "STUDENT" /\ txs[t].userId # user.id)
                    => Failed(wk'[w], "Forbidden", "You can only view your own transactions")
              /\ (t \in 1..Len(txs) /\ (txs[t].userId = user.id \/ user.role \in {"ADMIN", "LIBRARIAN"}))
                    => (wk'[w].res = "ok" /\ wk'[w].out.row = txs[t])
              /\ UNCHANGED db]_vars

\* student u1 was refused record 2 of u2, and the librarian was given it
C25_Witness ==
    \E w \in Workers, v \in Workers :
        /\ Finished(w, "findOne", "Forbidden")
        /\ wk[w].out.user = [id |-> "u1", role |-> "STUDENT"]
        /\ wk[w].out.id = 2
        /\ Finished(v, "findOne", "ok")
        /\ wk[v].out.user.role = "LIBRARIAN"
        /\ wk[v].out.id = 2
        /\ wk[v].out.row.userId = "u2"

\* C26: findActiveByUser fails with Forbidden when a STUDENT asks for a userId other
\* than their own; otherwise it returns exactly the records of that userId whose
\* status is ISSUED or OVERDUE, so no RETURNED record
C26_FindActiveByUserAccess ==
    [][\A w \in Workers :
        Calls(w, "findActiveByUser", {})
        => LET user == wk'[w].out.user
               userId == wk'[w].out.userId
           IN /\ (user.role = "STUDENT" /\ userId # user.id)
                    => Failed(wk'[w], "Forbidden", "You can only view your own transactions")
              /\ ~(user.role = "STUDENT" /\ userId # user.id)
                    => /\ wk'[w].res = "ok"
                       /\ wk'[w].out.rows = {i \in 1..Len(txs) : /\ txs[i].userId = userId
                                                                 /\ txs[i].status \in {"ISSUED", "OVERDUE"}}
                       /\ \A i \in wk'[w].out.rows : txs[i].status # "RETURNED"
              /\ UNCHANGED db]_vars

\* student u1 asked for their own active records and got record 3, not the
\* RETURNED record 1
C26_Witness ==
    \E w \in Workers :
        /\ Finished(w, "findActiveByUser", "ok")
        /\ wk[w].out.user = [id |-> "u1", role |-> "STUDENT"]
        /\ wk[w].out.userId = "u1"
        /\ wk[w].out.rows = {3}
        /\ txs[1].userId = "u1"
        /\ txs[1].status = "RETURNED"

\* C27: for a STUDENT requester, findOne succeeds exactly for the records that
\* findAll would list for that requester in the same state, every record that
\* findActiveByUser returns is one of those, and whatever id is passed no read
\* returns a record whose userId is not the requester's
C27_SameAuthorizationAtEveryRead ==
    [][\A w \in Workers :
        (/\ Free(w) /\ calls' = calls + 1 /\ wk'[w] # wk[w]
         /\ wk'[w].pc = "done"
         /\ wk'[w].op \in {"findAll", "findOne", "findActiveByUser"}
         /\ wk'[w].out.user.role = "STUDENT")
        => LET user == wk'[w].out.user
               listed == findAllWhere(user)
               seen == IF wk'[w].res # "ok" THEN {}
                       ELSE IF wk'[w].op = "findOne" THEN {wk'[w].out.id}
                       ELSE IF wk'[w].op = "findActiveByUser" THEN wk'[w].out.rows
                       ELSE {wk'[w].out.list[i] : i \in DOMAIN wk'[w].out.list}
           IN /\ wk'[w].op = "findOne" => (wk'[w].res = "ok" <=> wk'[w].out.id \in listed)
              /\ wk'[w].op = "findActiveByUser" => seen \subseteq listed
              /\ \A i \in seen : txs[i].userId = user.id]_vars

\* student u2 was refused record 3 by id and refused u1's active records, and
\* record 3 belongs to u1
C27_Witness ==
    \E w \in Workers, v \in Workers :
        /\ Finished(w, "findOne", "Forbidden")
        /\ wk[w].out.user = [id |-> "u2", role |-> "STUDENT"]
        /\ wk[w].out.id = 3
        /\ Finished(v, "findActiveByUser", "Forbidden")
        /\ wk[v].out.user = [id |-> "u2", role |-> "STUDENT"]
        /\ wk[v].out.userId = "u1"
        /\ txs[3].userId = "u1"

\* C28: a return or renew request by a STUDENT for a lending record of another
\* borrower is rejected and changes no state
C28_StudentReturnsRenewsOnlyOwn ==
    [][\A w \in Workers :
         (/\ wk[w].pc \in {"return_tx", "renew_update"}
          /\ wk'[w].pc = "done"
          /\ wk[w].requester.role = "STUDENT"
          /\ txs[wk[w].transactionId].userId # wk[w].requester.id)
         => (wk'[w].res # "ok" /\ UNCHANGED db)]_vars

\* C29: an issue request by a STUDENT whose borrower id is not the requester's
\* own id never creates a lending record for that other borrower
C29_StudentIssuesOnlyToSelf ==
    [][\A w \in Workers :
         (/\ wk[w].pc = "issue_tx"
          /\ wk'[w].pc = "done"
          /\ wk[w].requester.role = "STUDENT"
          /\ wk[w].userId # wk[w].requester.id)
         => ~\E i \in 1..Len(txs') : i > Len(txs) /\ txs'[i].userId = wk[w].userId]_vars

\* C30: a request by a STUDENT to the overdue endpoint is refused before the
\* sweep runs: it obtains no list, every sweep that completes was requested by
\* an ADMIN or a LIBRARIAN, and every change of a record from ISSUED to OVERDUE
\* is the update of such a sweep
C30_OverdueOnlyForStaff ==
    [][/\ \A w \in Workers :
            /\ (Calls(w, "findOverdue", {"findOverdue_updateMany"}) /\ wk'[w].requester.role = "STUDENT")
                  => Failed(wk'[w], "Forbidden", "Forbidden resource")
            /\ (wk[w].pc = "findOverdue_updateMany" /\ wk'[w].pc = "done")
                  => wk[w].requester.role \in {"ADMIN", "LIBRARIAN"}
       /\ (\E i \in 1..Len(txs) : txs[i].status = "ISSUED" /\ txs'[i].status = "OVERDUE")
            => \E w \in Workers : /\ wk[w].pc = "findOverdue_updateMany"
                                  /\ wk'[w].pc = "done"
                                  /\ wk[w].requester.role \in {"ADMIN", "LIBRARIAN"}]_vars

\* a STUDENT was refused at the overdue endpoint while a record was ISSUED and
\* past its due date
C30_Witness ==
    \E w \in Workers :
        /\ Failed(wk[w], "Forbidden", "Forbidden resource")
        /\ wk[w].op = "findOverdue"
        /\ wk[w].requester.role = "STUDENT"
        /\ OverdueAt(now) # {}

\* C31: with one request at a time, the book's counters and every copy's status
\* are determined by the copy rows and the open records (4 rows and no open
\* record give {4,4}, one open record gives {4,3} and its copy ISSUED), so an
\* issue followed by the return of the record it created restores them; the
\* return sets the copy AVAILABLE and adds one to availableCopies, and a return
\* on the day of issue reports overdueDays 0 and fine 0
C31_IssueThenReturnRestores ==
    /\ [](\A b \in BookIds :
            /\ books[b].totalCopies = Cardinality(CopiesOf(b))
            /\ books[b].availableCopies =
                  Cardinality(CopiesOf(b)) - Cardinality({c \in CopiesOf(b) : OpenTxsOf(c) # {}})
            /\ \A c \in CopiesOf(b) :
                  copies[c].status = IF OpenTxsOf(c) # {} THEN "ISSUED" ELSE "AVAILABLE")
    /\ [][\A w \in Workers :
            (wk[w].pc = "return_tx" /\ wk'[w].pc = "done")
            => LET t == wk[w].transactionId
                   c == txs[t].bookCopyId
                   b == copies[c].bookId
               IN /\ wk'[w].res = "ok"
                  /\ copies' = [copies EXCEPT ![c].status = "AVAILABLE"]
                  /\ books' = [books EXCEPT ![b].availableCopies = @ + 1]
                  /\ (wk[w].returnDate - txs[t].issueDate < HoursPerDay)
                       => (wk'[w].out.overdueDays = 0 /\ wk'[w].out.fine = 0)]_vars

\* the walk-through's last state: four copies added to the empty shelf, one
\* issued and returned the same day with no fine, the book back at {4,4}
C31_Witness ==
    /\ Cardinality(DOMAIN copies) = 4
    /\ \A c \in DOMAIN copies : copies[c].status = "AVAILABLE"
    /\ books["b1"] = [totalCopies |-> 4, availableCopies |-> 4]
    /\ Len(txs) = 1
    /\ txs[1].status = "RETURNED"
    /\ txs[1].returnDate = txs[1].issueDate
    /\ \E w \in Workers : /\ Finished(w, "return", "ok")
                          /\ wk[w].out.overdueDays = 0
                          /\ wk[w].out.fine = 0

\* C32: a lending record's status only moves ISSUED -> OVERDUE, ISSUED -> RETURNED
\* or OVERDUE -> RETURNED, and once a record is RETURNED its status, returnDate,
\* dueDate and renewCount never change again
C32_StatusForwardReturnedTerminal ==
    [][\A i \in 1..Len(txs) :
         /\ txs'[i].status # txs[i].status
              => <<txs[i].status, txs'[i].status>> \in
                   {<<"ISSUED", "OVERDUE">>, <<"ISSUED", "RETURNED">>, <<"OVERDUE", "RETURNED">>}
         /\ txs[i].status = "RETURNED"
              => /\ txs'[i].status = "RETURNED"
                 /\ txs'[i].returnDate = txs[i].returnDate
                 /\ txs'[i].dueDate = txs[i].dueDate
                 /\ txs'[i].renewCount = txs[i].renewCount]_vars

C34_FailureChangesNothing ==
    [][/\ \A w \in Workers :
            (/\ wk'[w] # wk[w]
             /\ wk'[w].pc = "done"
             /\ wk'[w].op \in {"issue", "return", "renew", "addCopies", "removeCopies"}
             /\ wk'[w].res # "ok")
            => UNCHANGED db
       /\ db' # db => \E w \in Workers : /\ wk[w].pc \notin {"idle", "done"}
                                          /\ wk'[w].pc = "done"
                                          /\ wk'[w].res = "ok"]_vars

\* an issue batch failed on a copy that a removeCopies had deleted meanwhile, and
\* left no record behind
C34_Witness ==
    \E w, v \in Workers :
        /\ Finished(w, "removeCopies", "ok")
        /\ Finished(v, "issue", "TxError")
        /\ wk[v].out.bookCopyId \in wk[w].out.deleted
        /\ txs = << >>

\* C35: a started issue, return, renew, addCopies, removeCopies or sweep always
\* has its next statement ready to run, whatever the other callers are doing,
\* and under fair scheduling it eventually completes or fails
C35_EveryCallEnds ==
    /\ [](\A w \in Workers : ~Free(w) => ENABLED Continue(w))
    /\ \A w \in Workers : (~Free(w)) ~> Free(w)

\* two returns of the same record were in flight together and one has completed
\* while the other is still pending
C35_Witness ==
    \E w, v \in Workers :
        /\ Finished(w, "return", "ok")
        /\ wk[v].pc = "return_tx"
        /\ wk[v].transactionId = wk[w].out.transactionId

\* C36: of the returns of one lending record at most one succeeds: a return's
\* batch commits only on a record that is still open, so availableCopies is
\* added to once and returnDate written once per record
C36_ReturnCommitsOnce ==
    [][\A w \in Workers :
         (wk[w].pc = "return_tx" /\ wk'[w].pc = "done" /\ wk'[w].res = "ok")
         => txs[wk[w].transactionId].status # "RETURNED"]_vars

\* C37: in every reachable state a copy is ISSUED exactly when one open lending
\* record (ISSUED or OVERDUE) references it, and an AVAILABLE copy has no open
\* lending record
C37_IssuedIffOneOpenRecord ==
    \A c \in DOMAIN copies :
        /\ copies[c].status = "ISSUED" <=> Cardinality(OpenTxsOf(c)) = 1
        /\ copies[c].status = "AVAILABLE" => OpenTxsOf(c) = {}

\* C38: in every reachable state each book's totalCopies equals the number of
\* copy rows that exist for that book
C38_TotalMatchesRows ==
    \A b \in BookIds : books[b].totalCopies = Cardinality(CopiesOf(b))

\* C39: a record that is OVERDUE has a dueDate earlier than the time of the sweep
\* that reclassified it (so earlier than the clock), and keeps its dueDate and
\* renewCount while it is OVERDUE, whatever renew calls are interleaved with
\* that sweep
C39_OverdueRecordNotRenewed ==
    /\ [](\A i \in 1..Len(txs) : txs[i].status = "OVERDUE" => txs[i].dueDate < now)
    /\ [][\A i \in 1..Len(txs) :
            (txs[i].status = "OVERDUE" /\ txs'[i].status = "OVERDUE")
            => (txs'[i].dueDate = txs[i].dueDate /\ txs'[i].renewCount = txs[i].renewCount)]_vars

\* C40: whatever renew calls run together on a record, the record's renewCount
\* never exceeds 1 and its dueDate is its issue-time due date or that date plus
\* 7 days, never plus 14; a renew that commits leaves renewCount = 1
C40_ConcurrentRenewExtendsOnce ==
    /\ [](\A i \in 1..Len(txs) :
            /\ txs[i].renewCount \in {0, 1}
            /\ txs[i].dueDate = addDays(issueDueDate(txs[i].issueDate), txs[i].renewCount * RenewDays))
    /\ [][\A w \in Workers :
            (wk[w].pc = "renew_update" /\ wk'[w].pc = "done")
            => txs'[wk[w].transactionId].renewCount = 1]_vars

\* both callers renewed record 1, found with renewCount 0, and both report
\* success; the record stands at renewCount 1, due 7 days later than at issue
C40_Witness ==
    /\ \A w \in Workers : Finished(w, "renew", "ok") /\ wk[w].out.transactionId = 1
    /\ Len(txs) = 1
    /\ txs[1].renewCount = 1
    /\ txs[1].dueDate = addDays(issueDueDate(txs[1].issueDate), RenewDays)

====
